---- MODULE Spec2Model ----
(***************************************************************************)
(* A model of the kriterium helper libraries: package panics (assertion    *)
(* primitives and the recovery primitives Recover, AsyncRecover and        *)
(* ExitHandler), package flags (typed options and UsageVerify) and package *)
(* errors (generators of tagged errors).  Go strings are TLA+ strings; Go  *)
(* interface values are records tagged with their dynamic type.  A         *)
(* behaviour is the run of one client program: a function with a deferred  *)
(* recovery, a worker goroutine, a program declaring flags, or a program   *)
(* making tagged errors.                                                   *)
(***************************************************************************)
EXTENDS Integers, Sequences, FiniteSets, TLC

VARIABLES client, DEBUG, pc, fn, err, panicking, ret, exit, cause,
          wpc, job, wpanic, sendq, stat, chancap, okstat, got,
          fs, cells, assigned, options, ctor, verify,
          te, teargs, generated, matched

panicsVars == <<pc, fn, err, panicking, ret, exit, cause>>
asyncVars == <<wpc, job, wpanic, sendq, stat, chancap, okstat, got>>
flagsVars == <<fs, cells, assigned, options, ctor, verify>>
errorsVars == <<te, teargs, generated, matched>>
vars == <<client, DEBUG, panicsVars, asyncVars, flagsVars, errorsVars>>

-----------------------------------------------------------------------------
(* Bounds of the model. *)

\* longest string drawn as a panic payload
MaxStrLen == 2
\* longest list of descriptive fragments (info ...interface{})
MaxInfo == 2
\* largest capacity of the status channel
MaxChanCap == 2
\* most fields of the record handed to UsageVerify
MaxOptions == 2

-----------------------------------------------------------------------------
(* Go strings. *)

Char(s, i) == SubSeq(s, i, i)

HasPrefix(s, prefix) ==
    Len(s) >= Len(prefix) /\ SubSeq(s, 1, Len(prefix)) = prefix

RECURSIVE TrimLeft(_, _)
TrimLeft(s, c) ==
    IF Len(s) > 0 /\ Char(s, 1) = c THEN TrimLeft(SubSeq(s, 2, Len(s)), c) ELSE s

RECURSIVE TrimRight(_, _)
TrimRight(s, c) ==
    IF Len(s) > 0 /\ Char(s, Len(s)) = c
    THEN TrimRight(SubSeq(s, 1, Len(s) - 1), c)
    ELSE s

\* strings.Trim(s, cutset) for a cutset of one character
Trim(s, c) == TrimRight(TrimLeft(s, c), c)

\* fmt.Sprintf(format) with no operands: after a "%" the space flags are
\* skipped and the next character is the verb; "%%" prints "%", any other
\* verb finds its operand missing, a "%" with nothing after it has no verb;
\* every other character is copied.  (The strings of the model hold no other
\* flag and no width or precision character.)
RECURSIVE SprintfNoArgs(_)
SprintfNoArgs(format) ==
    IF format = "" THEN ""
    ELSE IF Char(format, 1) # "%"
    THEN Char(format, 1) \o SprintfNoArgs(SubSeq(format, 2, Len(format)))
    ELSE LET rest == TrimLeft(SubSeq(format, 2, Len(format)), " ")
         IN  IF rest = "" THEN "%!(NOVERB)"
             ELSE IF Char(rest, 1) = "%"
             THEN "%" \o SprintfNoArgs(SubSeq(rest, 2, Len(rest)))
             ELSE "%!" \o Char(rest, 1) \o "(MISSING)"
                       \o SprintfNoArgs(SubSeq(rest, 2, Len(rest)))

\* fmt's %d of a small int
Digits(n) == <<"0", "1", "2", "3", "4", "5", "6", "7", "8", "9">>[n + 1]

\* fmt's %q of an int: the single-quoted character literal of the rune
QuoteRune(n) == IF n = 97 THEN "'a'" ELSE "'b'"

\* the strings over Alphabet of length at most n
Alphabet == {"a", "%", "d"}

RECURSIVE StringsUpTo(_)
StringsUpTo(n) ==
    IF n = 0 THEN {""}
    ELSE LET shorter == StringsUpTo(n - 1)
         IN  shorter \cup {s \o c : s \in shorter, c \in Alphabet}

-----------------------------------------------------------------------------
(* Go values. *)

\* the nil interface value
Nil == [type |-> "nil"]

\* an error made by the caller: id tells two errors with one message apart
ClientError(id, msg) == [type |-> "error", id |-> id, msg |-> msg]

\* an error made here by fmt.Errorf: a fresh allocation, equal to no error
\* of the caller (id 0)
NewError(msg) == [type |-> "error", id |-> 0, msg |-> msg]

\* &recoveredError{cause: c, err: e}
Carrier(c, e) == [type |-> "*recoveredError", cause |-> c, err |-> e]

StringValue(s) == [type |-> "string", str |-> s]
IntValue(n) == [type |-> "int", n |-> n]
BoolValue(b) == [type |-> "bool", b |-> b]

\* error.Error(): a carrier answers with the message of its err member
RECURSIVE Error(_)
Error(e) == IF e.type = "*recoveredError" THEN Error(e.err) ELSE e.msg

IsError(v) == v.type \in {"error", "*recoveredError"}

-----------------------------------------------------------------------------
(* package panics: the assertion primitives. *)

\* one fragment of fmtInfo's type switch
FragmentString(s) ==
    CASE s.type = "string" -> s.str
      [] s.type = "int" -> Digits(s.n)
      [] s.type = "bool" -> IF s.b THEN "true" ELSE "false"
      [] OTHER -> Error(s)

RECURSIVE JoinFragments(_)
JoinFragments(info) ==
    IF info = <<>> THEN ""
    ELSE " " \o FragmentString(Head(info)) \o JoinFragments(Tail(info))

\* fmtInfo without the final strings.Trim
fmtInfoNoTrim(info) ==
    IF Len(info) > 0 THEN JoinFragments(info) ELSE ""

fmtInfo(info) ==
    IF Len(info) > 0 THEN Trim(JoinFragments(info), " ") ELSE ""

\* Each primitive yields the value it panics with, or Nil when it returns.
OnFalse(flag, info) ==
    IF flag THEN Nil
    ELSE LET e == NewError(fmtInfo(info) \o " - assert-fail:")
         IN  Carrier(e, e)

OnTrue(flag, info) ==
    IF ~flag THEN Nil
    ELSE LET e == NewError(fmtInfo(info) \o " - assert-fail:")
         IN  Carrier(e, e)

\* OnNil with its test inverted
OnNilInverted(v, info) ==
    IF v = Nil THEN Nil
    ELSE LET e == NewError(fmtInfo(info) \o " - value is nil:")
         IN  Carrier(e, e)

OnNil(v, info) ==
    IF v # Nil THEN Nil
    ELSE LET e == NewError(fmtInfo(info) \o " - value is nil:")
         IN  Carrier(e, e)

\* OnError filling cause as the three other primitives do, with err
OnErrorCauseErr(e, info) ==
    IF e = Nil THEN Nil
    ELSE IF Len(info) > 0
    THEN LET x == NewError("error: " \o fmtInfo(info)
                              \o " (cause: " \o Error(e) \o ")")
         IN  Carrier(x, x)
    ELSE IF ~HasPrefix(Error(e), "error:")
    THEN LET x == NewError("error: " \o fmtInfo(info) \o Error(e))
         IN  Carrier(x, x)
    ELSE Carrier(e, e)

OnError(e, info) ==
    IF e = Nil THEN Nil
    ELSE IF Len(info) > 0
    THEN Carrier(e, NewError("error: " \o fmtInfo(info)
                                \o " (cause: " \o Error(e) \o ")"))
    ELSE IF ~HasPrefix(Error(e), "error:")
    THEN Carrier(e, NewError("error: " \o fmtInfo(info) \o Error(e)))
    ELSE Carrier(e, e)

\* Cause answering nil for what is no carrier
CauseOrNil(e) == IF e.type # "*recoveredError" THEN Nil ELSE e.cause

Cause(e) == IF e.type # "*recoveredError" THEN e ELSE e.cause

-----------------------------------------------------------------------------
(* package panics: ForFunc. *)

\* infoFixup putting the label after the fragments
infoFixupAppended(fname, info) == info \o <<StringValue(fname \o "():")>>

infoFixup(fname, info) == <<StringValue(fname \o "():")>> \o info

fnpanicsOnError(fname, e, info) == OnError(e, infoFixup(fname, info))
fnpanicsOnNil(fname, v, info) == OnNil(v, infoFixup(fname, info))
fnpanicsOnFalse(fname, flag, info) == OnFalse(flag, infoFixup(fname, info))
fnpanicsOnTrue(fname, flag, info) == OnTrue(flag, infoFixup(fname, info))

-----------------------------------------------------------------------------
(* package panics: the recovery primitives. *)

\* Go's recover(): the value of the panic in flight (Nil when there is
\* none), but only in a function the defer statement called itself
\* (depth 0); anywhere deeper it answers nil and the panic goes on.
recover(p, depth) == IF depth = 0 THEN p ELSE Nil

\* the switch on the recovered value shared by the three primitives
Classify(p) ==
    CASE p.type = "*recoveredError" -> p
      [] p.type = "error" -> p
      [] p.type = "string" -> NewError(SprintfNoArgs(p.str))
      [] OTHER -> NewError("recovered-panic: " \o QuoteRune(p.n))

\* Recover assigning its (nil) result to *err when nothing was recovered
RecoverClearsSlot(debug, p, depth, slot) ==
    IF debug THEN [ret |-> Nil, slot |-> slot, recovered |-> FALSE]
    ELSE LET r == recover(p, depth)
         IN  IF r = Nil
             THEN [ret |-> Nil, slot |-> Nil, recovered |-> FALSE]
             ELSE [ret |-> Classify(r), slot |-> Classify(r),
                   recovered |-> TRUE]

\* Recover(&err), entered depth calls below the defer statement with panic
\* p in flight (Nil: none) and slot the value of *err: the value returned,
\* the value of *err afterwards, and whether the panic was stopped.
Recover(debug, p, depth, slot) ==
    IF debug THEN [ret |-> Nil, slot |-> slot, recovered |-> FALSE]
    ELSE LET r == recover(p, depth)
         IN  IF r = Nil
             THEN [ret |-> Nil, slot |-> slot, recovered |-> FALSE]
             ELSE [ret |-> Classify(r), slot |-> Classify(r),
                   recovered |-> TRUE]

fnpanicsRecover(debug, p, depth, slot) == Recover(debug, p, depth + 1, slot)

\* AsyncRecover without the return after  stat <- okstat : the nil value
\* falls into the switch and its default case sends as well
AsyncRecoverFallsThrough(debug, p, depth, ok) ==
    IF debug THEN [send |-> <<>>, recovered |-> FALSE]
    ELSE LET r == recover(p, depth)
         IN  IF r = Nil
             THEN [send |-> <<ok, NewError("recovered-panic: %!q(<nil>)")>>,
                   recovered |-> FALSE]
             ELSE [send |-> <<Classify(r)>>, recovered |-> TRUE]

\* AsyncRecover(stat, okstat): the values sent on stat (at most one) and
\* whether the panic was stopped.
AsyncRecover(debug, p, depth, ok) ==
    IF debug THEN [send |-> <<>>, recovered |-> FALSE]
    ELSE LET r == recover(p, depth)
         IN  IF r = Nil
             THEN [send |-> <<ok>>, recovered |-> FALSE]
             ELSE [send |-> <<Classify(r)>>, recovered |-> TRUE]

\* what the process has done on leaving through ExitHandler
NoExit == [code |-> -1, log |-> ""]

\* ExitHandler without its test of DEBUG
ExitHandlerIgnoresDEBUG(debug, p, depth, label) ==
    LET r == recover(p, depth)
    IN  IF r = Nil
        THEN [exit |-> [code |-> 0, log |-> ""], recovered |-> FALSE]
        ELSE [exit |-> [code |-> 1,
                        log |-> "fatal error: " \o label \o ": "
                                   \o Error(Classify(r))],
              recovered |-> TRUE]

ExitHandler(debug, p, depth, label) ==
    IF debug THEN [exit |-> NoExit, recovered |-> FALSE]
    ELSE LET r == recover(p, depth)
         IN  IF r = Nil
             THEN [exit |-> [code |-> 0, log |-> ""], recovered |-> FALSE]
             ELSE [exit |-> [code |-> 1,
                             log |-> "fatal error: " \o label \o ": "
                                        \o Error(Classify(r))],
                   recovered |-> TRUE]

-----------------------------------------------------------------------------
(* The inputs the callers draw from. *)

RECURSIVE SeqsUpTo(_, _)
SeqsUpTo(S, n) ==
    IF n = 0 THEN {<<>>}
    ELSE LET shorter == SeqsUpTo(S, n - 1)
         IN  shorter \cup {Append(q, x) : q \in shorter, x \in S}

\* descriptive fragments: a word, a word with a leading space, a number
Fragments == {StringValue("a"), StringValue(" b"), IntValue(7)}
Infos == SeqsUpTo(Fragments, MaxInfo)

\* errors of the caller: a plain one, one whose message already starts with
\* "error:", and one recovered earlier from OnError(ClientError(1, "x"))
Errors == {ClientError(1, "x"), ClientError(2, "error: y"),
           Carrier(ClientError(1, "x"), NewError("error: x"))}

\* values a body may hand to panic() itself
Payloads == {ClientError(1, "x")}
            \cup {StringValue(s) : s \in StringsUpTo(MaxStrLen)}
            \cup {IntValue(97), IntValue(98)}

\* the body of a function: one call of a primitive, or of panic()
Bodies ==
    [prim : {"OnError"}, arg : Errors \cup {Nil}, info : Infos]
    \cup [prim : {"OnNil"}, arg : {Nil, IntValue(7)}, info : Infos]
    \cup [prim : {"OnFalse", "OnTrue"},
          arg : {BoolValue(TRUE), BoolValue(FALSE)}, info : Infos]
    \cup [prim : {"panic"}, arg : Payloads, info : {<<>>}]

\* the label given to ForFunc and to ExitHandler
Labels == {"f"}

\* the primitive is called on the package, or on the wrapper of ForFunc
Vias == {"panics", "ForFunc"}

\* the value the body panics with, Nil when it runs to its end
Raise(via, fname, body) ==
    CASE body.prim = "panic" -> body.arg
      [] body.prim = "OnError" ->
            IF via = "ForFunc" THEN fnpanicsOnError(fname, body.arg, body.info)
            ELSE OnError(body.arg, body.info)
      [] body.prim = "OnNil" ->
            IF via = "ForFunc" THEN fnpanicsOnNil(fname, body.arg, body.info)
            ELSE OnNil(body.arg, body.info)
      [] body.prim = "OnFalse" ->
            IF via = "ForFunc" THEN fnpanicsOnFalse(fname, body.arg.b, body.info)
            ELSE OnFalse(body.arg.b, body.info)
      [] body.prim = "OnTrue" ->
            IF via = "ForFunc" THEN fnpanicsOnTrue(fname, body.arg.b, body.info)
            ELSE OnTrue(body.arg.b, body.info)

-----------------------------------------------------------------------------
(* A function  func() (err error) { defer <recoverer>; <body>; return }    *)
(* as in errFuncsApi and errFuncsForFunc, or a main that defers            *)
(* ExitHandler.                                                            *)

NoCall == [recoverer |-> "none"]
NoRet == [type |-> "none"]

\* pre is what the body assigns to err before it calls the primitive
Functions ==
    { [recoverer |-> r, via |-> v, fname |-> l, body |-> b, pre |-> p] :
        r \in {"Recover", "fnpanics.Recover"}, v \in Vias, l \in Labels,
        b \in Bodies, p \in {Nil, ClientError(3, "z")} }
    \cup
    { [recoverer |-> "ExitHandler", via |-> v, fname |-> l, body |-> b,
       pre |-> Nil] : v \in Vias, l \in Labels, b \in Bodies }

\* panics.DEBUG = b, before the program calls anything: "set to true to
\* short circuit the panic recovery mechanism"
SetDEBUG(b) ==
    /\ client \in {"function", "goroutine"}
    /\ pc = "idle"
    /\ wpc = "idle"
    /\ DEBUG # b
    /\ DEBUG' = b
    /\ UNCHANGED <<client, panicsVars, asyncVars, flagsVars, errorsVars>>

\* the caller enters one of the functions
Call ==
    /\ client = "function"
    /\ pc = "idle"
    /\ fn' \in Functions
    /\ err' = Nil
    /\ panicking' = Nil
    /\ ret' = NoRet
    /\ exit' = NoExit
    /\ cause' = NoRet
    /\ pc' = "body"
    /\ UNCHANGED <<client, DEBUG, asyncVars, flagsVars, errorsVars>>

Body ==
    /\ pc = "body"
    /\ err' = fn.pre
    /\ panicking' = Raise(fn.via, fn.fname, fn.body)
    /\ pc' = "deferred"
    /\ UNCHANGED <<client, DEBUG, fn, ret, exit, cause, asyncVars, flagsVars, errorsVars>>

\* what running the deferred Recover makes of the function
Recovered(r) ==
    /\ err' = r.slot
    /\ ret' = r.ret
    /\ panicking' = IF r.recovered THEN Nil ELSE panicking
    /\ pc' = IF panicking' = Nil THEN "returned" ELSE "escaped"
    /\ UNCHANGED <<client, DEBUG, fn, exit, cause, asyncVars, flagsVars, errorsVars>>

\* defer panics.Recover(&err)
DeferredRecover ==
    /\ pc = "deferred"
    /\ fn.recoverer = "Recover"
    /\ Recovered(Recover(DEBUG, panicking, 0, err))

\* defer panics.Recover(&err), panics being the wrapper of ForFunc
DeferredFnpanicsRecover ==
    /\ pc = "deferred"
    /\ fn.recoverer = "fnpanics.Recover"
    /\ Recovered(fnpanicsRecover(DEBUG, panicking, 0, err))

\* defer panics.ExitHandler(label)
DeferredExitHandler ==
    /\ pc = "deferred"
    /\ fn.recoverer = "ExitHandler"
    /\ LET r == ExitHandler(DEBUG, panicking, 0, fn.fname)
       IN  /\ exit' = r.exit
           /\ panicking' = IF r.recovered THEN Nil ELSE panicking
           /\ pc' = IF r.exit # NoExit THEN "exited"
                    ELSE IF panicking' = Nil THEN "returned" ELSE "escaped"
    /\ UNCHANGED <<client, DEBUG, fn, err, ret, cause, asyncVars, flagsVars, errorsVars>>

\* the caller, handed err by the function, asks panics.Cause(err)
Inspect ==
    /\ pc = "returned"
    /\ cause = NoRet
    /\ cause' = Cause(err)
    /\ UNCHANGED <<client, DEBUG, pc, fn, err, panicking, ret, exit,
                   asyncVars, flagsVars, errorsVars>>

-----------------------------------------------------------------------------
(* A worker  go func() { defer panics.AsyncRecover(stat, okstat); <body> }() *)
(* on a channel of its own, as asyncFn in the tests.                        *)

NoJob == [via |-> "none"]
\* the caller's ok values: a word, a number, and an error that a body may
\* also panic with
Sentinels == {StringValue("ok"), IntValue(0), ClientError(1, "x")}

Jobs == { [via |-> v, fname |-> l, body |-> b] :
            v \in Vias, l \in Labels, b \in Bodies }

\* statchan := make(chan interface{}, cap); go asyncFn(fn, statchan)
Go ==
    /\ client = "goroutine"
    /\ wpc = "idle"
    /\ job' \in Jobs
    /\ chancap' \in 0..MaxChanCap
    /\ okstat' \in Sentinels
    /\ stat' = <<>>
    /\ got' = <<>>
    /\ wpanic' = Nil
    /\ sendq' = <<>>
    /\ wpc' = "body"
    /\ UNCHANGED <<client, DEBUG, panicsVars, flagsVars, errorsVars>>

WorkerBody ==
    /\ wpc = "body"
    /\ wpanic' = Raise(job.via, job.fname, job.body)
    /\ wpc' = "deferred"
    /\ UNCHANGED <<client, DEBUG, job, stat, chancap, okstat, got, sendq,
                   panicsVars, flagsVars, errorsVars>>

\* the deferred AsyncRecover up to its send
WorkerDeferred ==
    /\ wpc = "deferred"
    /\ LET r == AsyncRecover(DEBUG, wpanic, 0, okstat)
       IN  /\ sendq' = r.send
           /\ wpanic' = IF r.recovered THEN Nil ELSE wpanic
           /\ wpc' = IF r.send # <<>> THEN "sending"
                     ELSE IF wpanic' = Nil THEN "done" ELSE "crashed"
    /\ UNCHANGED <<client, DEBUG, job, stat, chancap, okstat, got,
                   panicsVars, flagsVars, errorsVars>>

\* stat <- v  with room in the buffer
Send ==
    /\ wpc = "sending"
    /\ Len(stat) < chancap
    /\ stat' = Append(stat, Head(sendq))
    /\ sendq' = Tail(sendq)
    /\ wpc' = IF sendq' = <<>> THEN "done" ELSE "sending"
    /\ UNCHANGED <<client, DEBUG, job, wpanic, chancap, okstat, got,
                   panicsVars, flagsVars, errorsVars>>

\* stat <- v  on an unbuffered channel: done only with the caller receiving
SendToReceiver ==
    /\ wpc = "sending"
    /\ chancap = 0
    /\ got' = Append(got, Head(sendq))
    /\ sendq' = Tail(sendq)
    /\ wpc' = IF sendq' = <<>> THEN "done" ELSE "sending"
    /\ UNCHANGED <<client, DEBUG, job, wpanic, stat, chancap, okstat,
                   panicsVars, flagsVars, errorsVars>>

\* stat := <-statchan  in the caller
Receive ==
    /\ stat # <<>>
    /\ got' = Append(got, Head(stat))
    /\ stat' = Tail(stat)
    /\ UNCHANGED <<client, DEBUG, wpc, job, wpanic, chancap, okstat, sendq,
                   panicsVars, flagsVars, errorsVars>>

-----------------------------------------------------------------------------
(* package errors: the generators of tagged errors. *)

\* longest list of arguments handed to a generator
MaxArgs == 2

\* fmt's %v of one operand
FormatV(v) ==
    CASE v.type = "string" -> v.str
      [] v.type = "int" -> Digits(v.n)
      [] v.type = "bool" -> IF v.b THEN "true" ELSE "false"
      [] OTHER -> Error(v)

\* fmt.Sprintln(a...): a space between any two operands, a newline after
\* the last
RECURSIVE Sprintln(_)
Sprintln(a) ==
    IF a = <<>> THEN "\n"
    ELSE IF Len(a) = 1 THEN FormatV(Head(a)) \o "\n"
    ELSE FormatV(Head(a)) \o " " \o Sprintln(Tail(a))

\* the generator that leaves the "ERR - " tag out
NewUntagged(errcode, args) ==
    LET decoration == IF Len(args) > 0 THEN ":" ELSE ""
        errfmt == <<StringValue(errcode \o decoration)>>
        args0 == errfmt \o args
    IN  NewError(SprintfNoArgs(Sprintln(args0)))

\* errors.New(errcode)(args...): the line of Sprintln is the format of
\* fmt.Errorf
New(errcode, args) ==
    LET decoration == IF Len(args) > 0 THEN ":" ELSE ""
        errfmt == <<StringValue("ERR - " \o errcode \o decoration)>>
        args0 == errfmt \o args
    IN  NewError(SprintfNoArgs(Sprintln(args0)))

\* te.Matches(e) of the generator te of errcode: the message of e begins
\* with the formatted prefix of the code
Matches(errcode, e) ==
    e # Nil /\ HasPrefix(Error(e), "ERR - " \o errcode)

\* the codes and the arguments of the client
Codes == StringsUpTo(MaxStrLen)
Args == {StringValue("b"), StringValue("%"), IntValue(7)}
ArgLists == UNION {[1..n -> Args] : n \in 0..MaxArgs}

NoCode == [type |-> "none"]

\* te := errors.New(code)
ErrorsNew ==
    /\ client = "errors"
    /\ te = NoCode
    /\ te' \in {StringValue(c) : c \in Codes}
    /\ UNCHANGED <<client, DEBUG, panicsVars, asyncVars, flagsVars, teargs,
                   generated, matched>>

\* e := te(args...)
Generate ==
    /\ client = "errors"
    /\ te # NoCode
    /\ generated = NoRet
    /\ teargs' \in ArgLists
    /\ generated' = New(te.str, teargs')
    /\ UNCHANGED <<client, DEBUG, panicsVars, asyncVars, flagsVars, te,
                   matched>>

\* te.Matches(e)
Match ==
    /\ client = "errors"
    /\ generated # NoRet
    /\ matched = NoRet
    /\ matched' = BoolValue(Matches(te.str, generated))
    /\ UNCHANGED <<client, DEBUG, panicsVars, asyncVars, flagsVars, te,
                   teargs, generated>>

-----------------------------------------------------------------------------
(* package flags.  The typed options are one generated text; IntOption     *)
(* stands for them.  An option is the record                                *)
(*   [short, long, required, defval, value]                                 *)
(* where value points into cells, the heap of the cells made by new(int).   *)

\* the answers of errors.RequiredFlag, errors.IllegalArgument and
\* errors.IllegalState: generators made by errors.New of the code of their
\* name
CodedError(code, msg) ==
    [type |-> "error", id |-> 0, code |-> code,
     msg |-> Error(New(code, <<StringValue(msg)>>))]
RequiredFlag(usage) == CodedError("RequiredFlag", usage)
IllegalArgument(msg) == CodedError("IllegalArgument", msg)
IllegalState(msg) == CodedError("IllegalState", msg)

\* math.NaN(), a value of a Float64Option alone, told from the numbers by
\* a number no option is given otherwise
NaN == 2

\* x == y of Go on two values of the type of an option: NaN equals nothing
Equal(x, y) == x = y /\ x # NaN

Get(opt, heap) == heap[opt.value]
Default(opt) == opt.defval
Name(opt) == opt.short
LongName(opt) == opt.long
Required(opt) == opt.required
\* Provided comparing with the zero value instead of the default
ProvidedNonZero(opt, heap) == heap[opt.value] # 0

Provided(opt, heap) == ~Equal(heap[opt.value], opt.defval)

\* the outcome of a call that may panic
Returned(v) == [panic |-> FALSE, value |-> v]
Panicked(v) == [panic |-> TRUE, value |-> v]

\* verifyRequiredOption showing the short name alone whenever there is one
verifyRequiredOptionShortOnly(option, heap) ==
    IF Provided(option, heap) THEN Returned(Nil)
    ELSE LET shortIfAny == Name(option)
             longIfAny == LongName(option)
         IN  CASE shortIfAny = "" /\ longIfAny = "" ->
                    Panicked(IllegalState(
                        "BUG: option: neither short or long name defined"))
               [] shortIfAny = "" /\ longIfAny # "" ->
                    Returned(RequiredFlag(
                        "Option { -" \o longIfAny \o " } must be provided"))
               [] OTHER ->
                    Returned(RequiredFlag(
                        "Option { -" \o shortIfAny \o " } must be provided"))

verifyRequiredOption(option, heap) ==
    IF Provided(option, heap) THEN Returned(Nil)
    ELSE LET shortIfAny == Name(option)
             longIfAny == LongName(option)
         IN  CASE shortIfAny = "" /\ longIfAny = "" ->
                    Panicked(IllegalState(
                        "BUG: option: neither short or long name defined"))
               [] shortIfAny = "" /\ longIfAny # "" ->
                    Returned(RequiredFlag(
                        "Option { -" \o longIfAny \o " } must be provided"))
               [] shortIfAny # "" /\ longIfAny = "" ->
                    Returned(RequiredFlag(
                        "Option { -" \o shortIfAny \o " } must be provided"))
               [] OTHER ->
                    Returned(RequiredFlag(
                        "Option { -" \o shortIfAny \o " | -" \o longIfAny
                            \o " } must be provided"))

\* the loop of UsageVerify from field i on
RECURSIVE UsageVerifyFrom(_, _, _)
UsageVerifyFrom(s, heap, i) ==
    IF i > Len(s) THEN Returned(Nil)
    ELSE IF Required(s[i])
    THEN LET e == verifyRequiredOption(s[i], heap)
         IN  IF e.panic \/ e.value # Nil THEN e
             ELSE UsageVerifyFrom(s, heap, i + 1)
    ELSE UsageVerifyFrom(s, heap, i + 1)

\* UsageVerify walking the fields from the last to the first
RECURSIVE UsageVerifyDownFrom(_, _, _)
UsageVerifyDownFrom(s, heap, i) ==
    IF i < 1 THEN Returned(Nil)
    ELSE IF Required(s[i])
    THEN LET e == verifyRequiredOption(s[i], heap)
         IN  IF e.panic \/ e.value # Nil THEN e
             ELSE UsageVerifyDownFrom(s, heap, i - 1)
    ELSE UsageVerifyDownFrom(s, heap, i - 1)

UsageVerifyBackwards(s, heap) == UsageVerifyDownFrom(s, heap, Len(s))

UsageVerify(s, heap) == UsageVerifyFrom(s, heap, 1)

\* fs.IntVar leaving the cell as it finds it
IntVarNoDefault(flagset, heap, p, name, value) ==
    IF \E f \in flagset : f.name = name
    THEN [panic |-> TRUE, fs |-> flagset, heap |-> heap]
    ELSE [panic |-> FALSE, fs |-> flagset \cup {[name |-> name, cell |-> p]},
          heap |-> heap]

\* fs.IntVar(p, name, value, usage): *p = value, and the flag set panics
\* on a name it already holds
IntVar(flagset, heap, p, name, value) ==
    IF \E f \in flagset : f.name = name
    THEN [panic |-> TRUE, fs |-> flagset,
          heap |-> [heap EXCEPT ![p] = value]]
    ELSE [panic |-> FALSE, fs |-> flagset \cup {[name |-> name, cell |-> p]},
          heap |-> [heap EXCEPT ![p] = value]]

\* defineFlag registering the short name alone
defineFlagShortOnly(t, flagset, heap) ==
    IF t.short # ""
    THEN IntVar(flagset, heap, t.value, t.short, t.defval)
    ELSE [panic |-> FALSE, fs |-> flagset, heap |-> heap]

defineFlag(t, flagset, heap) ==
    LET first == IF t.short # ""
                 THEN IntVar(flagset, heap, t.value, t.short, t.defval)
                 ELSE [panic |-> FALSE, fs |-> flagset, heap |-> heap]
    IN  IF first.panic \/ t.long = "" THEN first
        ELSE IntVar(first.fs, first.heap, t.value, t.long, t.defval)

\* &IntOption{optionSpec{short, long, info, required}, new(int), defval},
\* the new cell being heap[p]
newIntOption(short, long, defval, required, p) ==
    [short |-> short, long |-> long, required |-> required,
     defval |-> defval, value |-> p]

ShortNames == {"", "a", "b"}
LongNames == {"", "a", "aa"}
\* the values assigned to the options, and those given as their defaults
Values == {0, 1, NaN}
Defaults == {1, NaN}

NoResult == [panic |-> FALSE, value |-> [type |-> "none"]]

\* a constructor has panicked: nothing recovers, and the program is over
Halted == ctor \in {"IllegalArgument", "flag redefined"}

\* the checks at the head of NewIntOption
NewIntOptionRejects(short, long) ==
    (short = "" /\ long = "") \/ short = long

\* NewIntOption(fs, short, long, defval, info, required) halting on its
\* arguments
NewIntOptionPanics(short, long) ==
    /\ client = "flags"
    /\ ~Halted
    /\ NewIntOptionRejects(short, long)
    /\ ctor' = "IllegalArgument"
    /\ verify' = NoResult
    /\ UNCHANGED <<client, DEBUG, panicsVars, asyncVars, errorsVars, fs, cells, assigned,
                   options>>

\* NewIntOption(fs, short, long, defval, info, required) past its checks;
\* the option it returns becomes the next field of the caller's record
NewIntOption(short, long, defval, required) ==
    /\ client = "flags"
    /\ ~Halted
    /\ ~NewIntOptionRejects(short, long)
    /\ Len(cells) < MaxOptions
    /\ LET p == Len(cells) + 1
           opt == newIntOption(short, long, defval, required, p)
           d == defineFlag(opt, fs, Append(cells, 0))
       IN  /\ fs' = d.fs
           /\ cells' = d.heap
           /\ options' = IF d.panic THEN options ELSE Append(options, opt)
           /\ ctor' = IF d.panic THEN "flag redefined" ELSE "ok"
    /\ verify' = NoResult
    /\ UNCHANGED <<client, DEBUG, panicsVars, asyncVars, errorsVars, assigned>>

\* fs.Set(name, v), as parsing -name=v does
Set(name, v) ==
    /\ client = "flags"
    /\ ~Halted
    /\ \E f \in fs :
          /\ f.name = name
          /\ cells' = [cells EXCEPT ![f.cell] = v]
          /\ assigned' = assigned \cup {f.cell}
    /\ verify' = NoResult
    /\ UNCHANGED <<client, DEBUG, panicsVars, asyncVars, errorsVars, fs, options, ctor>>

\* e := flags.UsageVerify(options)
Verify ==
    /\ client = "flags"
    /\ ~Halted
    /\ verify = NoResult
    /\ verify' = UsageVerify(options, cells)
    /\ UNCHANGED <<client, DEBUG, panicsVars, asyncVars, errorsVars, fs, cells, assigned,
                   options, ctor>>

-----------------------------------------------------------------------------
(* The specification. *)

Init ==
    /\ client \in {"function", "goroutine", "flags", "errors"}
    /\ DEBUG = FALSE
    /\ pc = "idle"
    /\ fn = NoCall
    /\ err = Nil
    /\ panicking = Nil
    /\ ret = NoRet
    /\ exit = NoExit
    /\ cause = NoRet
    /\ wpc = "idle"
    /\ job = NoJob
    /\ wpanic = Nil
    /\ sendq = <<>>
    /\ stat = <<>>
    /\ chancap = 0
    /\ okstat = Nil
    /\ got = <<>>
    /\ fs = {}
    /\ cells = <<>>
    /\ assigned = {}
    /\ options = <<>>
    /\ ctor = "none"
    /\ verify = NoResult
    /\ te = NoCode
    /\ teargs = <<>>
    /\ generated = NoRet
    /\ matched = NoRet

Next ==
    \/ \E b \in BOOLEAN : SetDEBUG(b)
    \/ Call
    \/ Body
    \/ DeferredRecover
    \/ DeferredFnpanicsRecover
    \/ DeferredExitHandler
    \/ Inspect
    \/ Go
    \/ WorkerBody
    \/ WorkerDeferred
    \/ Send
    \/ SendToReceiver
    \/ Receive
    \/ \E short \in ShortNames, long \in LongNames :
          NewIntOptionPanics(short, long)
    \/ \E short \in ShortNames, long \in LongNames, defval \in Defaults,
          required \in BOOLEAN : NewIntOption(short, long, defval, required)
    \/ \E name \in (ShortNames \cup LongNames) \ {""}, v \in Values :
          Set(name, v)
    \/ Verify
    \/ ErrorsNew
    \/ Generate
    \/ Match

Spec == Init /\ [][Next]_vars

\* goroutines are scheduled: a worker that can take its next step takes it.
\* Nothing makes the caller receive.
FairSpec ==
    Spec /\ WF_vars(WorkerBody) /\ WF_vars(WorkerDeferred) /\ WF_vars(Send)

-----------------------------------------------------------------------------
(* What the claims speak of. *)

Primitives == {"OnError", "OnNil", "OnFalse", "OnTrue"}

\* the assertion of the body fails, told from its arguments alone
Fails(body) ==
    CASE body.prim = "OnError" -> body.arg # Nil
      [] body.prim = "OnNil" -> body.arg = Nil
      [] body.prim = "OnFalse" -> body.arg = BoolValue(FALSE)
      [] body.prim = "OnTrue" -> body.arg = BoolValue(TRUE)
      [] OTHER -> FALSE

\* a function has been entered; its deferred call has run
Called == pc # "idle"
Post == {"returned", "escaped", "exited"}

\* the value the body of the function panicked with (Nil: it did not)
Payload == Raise(fn.via, fn.fname, fn.body)

\* a worker has been started; the value its body panicked with
Working == wpc # "idle"
WorkerPayload == Raise(job.via, job.fname, job.body)

\* all the worker has put on the channel, received or not
deposited == got \o stat

\* the function defers panics.Recover(&err) and calls a primitive of the
\* package, nothing else
PlainAssertion ==
    /\ Called
    /\ fn.recoverer = "Recover"
    /\ fn.via = "panics"
    /\ fn.body.prim \in Primitives
    /\ fn.pre = Nil

-----------------------------------------------------------------------------
\* C1 as stated: a function that defers panics.Recover(&err) and calls one
\* of OnError, OnNil, OnFalse, OnTrue raises no panic when the assertion
\* passes, and returns to its caller, with a non-nil error exactly when the
\* assertion fails.
C1AsStated ==
    PlainAssertion =>
        /\ (pc = "deferred" /\ ~Fails(fn.body)) => panicking = Nil
        /\ pc \in Post =>
              (pc = "returned" /\ (err # Nil <=> Fails(fn.body)))

\* C1, amended: the same while DEBUG is false; a passing assertion raises
\* no panic and the function returns nil whatever DEBUG is.
C1RecoverReturnsErrorIffAssertionFails ==
    PlainAssertion =>
        /\ (pc = "deferred" /\ ~Fails(fn.body)) => panicking = Nil
        /\ (pc \in Post /\ ~Fails(fn.body)) => (pc = "returned" /\ err = Nil)
        /\ (pc \in Post /\ Fails(fn.body) /\ ~DEBUG) =>
              (pc = "returned" /\ err # Nil /\ IsError(err))

C1Witness ==
    /\ PlainAssertion
    /\ fn.body.prim = "OnNil"
    /\ Fails(fn.body)
    /\ ~DEBUG
    /\ pc = "returned"
    /\ err # Nil

-----------------------------------------------------------------------------
\* the worker's report as C2 has it: one value, an error other than the
\* sentinel if the body panicked, the sentinel if it did not
OneReportAsStated ==
    /\ Len(deposited) = 1
    /\ IF WorkerPayload # Nil
       THEN /\ IsError(deposited[1])
            /\ deposited[1] # Nil
            /\ deposited[1] # okstat
       ELSE deposited[1] = okstat

\* C2 as stated: on a channel of capacity at least 1 the worker's send
\* finds room, and the worker ends having deposited exactly one value, an
\* error that is not the sentinel if it panicked and the ok sentinel if not.
C2AsStated ==
    (Working /\ chancap >= 1) =>
        /\ wpc = "sending" => Len(stat) < chancap
        /\ wpc \in {"done", "crashed"} => (wpc = "done" /\ OneReportAsStated)

\* the same report, the error being other than the sentinel unless the
\* body panicked with the sentinel itself
OneReport ==
    /\ Len(deposited) = 1
    /\ IF WorkerPayload # Nil
       THEN /\ IsError(deposited[1])
            /\ deposited[1] # Nil
            /\ WorkerPayload # okstat => deposited[1] # okstat
       ELSE deposited[1] = okstat

C2Safety ==
    (Working /\ chancap >= 1 /\ ~DEBUG) =>
        /\ wpc = "sending" => Len(stat) < chancap
        /\ Len(deposited) <= 1
        /\ wpc # "crashed"
        /\ wpc = "done" => (OneReport /\ sendq = <<>> /\ wpanic = Nil)

\* C2, amended: while DEBUG is false, a worker that defers AsyncRecover on
\* a channel of its own of capacity at least 1 never finds the channel
\* full, and always ends having deposited exactly one value, received or
\* not: the sentinel if it did not panic, and if it did an error, which is
\* not the sentinel unless the sentinel is what it panicked with.
C2AsyncRecoverReportsOnce ==
    /\ []C2Safety
    /\ (wpc = "body" /\ chancap >= 1 /\ ~DEBUG) ~> (wpc = "done")

C2Witness ==
    /\ wpc = "done"
    /\ chancap = 1
    /\ ~DEBUG
    /\ WorkerPayload # Nil
    /\ got = <<>>
    /\ Len(stat) = 1
    /\ IsError(stat[1])
    /\ stat[1] # okstat

-----------------------------------------------------------------------------
\* C3: a function that defers the Recover of the wrapper of ForFunc and
\* fails one of the wrapper's assertions returns a non-nil error to its
\* caller; the panic does not leave the function.  (Stated with DEBUG
\* false.)
C3ForFuncRecoverIntercepts ==
    ( /\ Called
      /\ fn.recoverer = "fnpanics.Recover"
      /\ fn.via = "ForFunc"
      /\ fn.body.prim \in Primitives
      /\ Fails(fn.body)
      /\ ~DEBUG
      /\ pc \in Post )
    => (pc = "returned" /\ err # Nil)

-----------------------------------------------------------------------------
\* C4: with a panic in flight and DEBUG false, the deferred Recover(&err)
\* stops it, returns what it wrote into err, and that is a non-nil error:
\* a carrier gives its formatted message, an error gives itself, a string s
\* gives the message s, anything else a "recovered-panic: " message.
C4RecoverClassifies ==
    ( /\ Called
      /\ fn.recoverer = "Recover"
      /\ ~DEBUG
      /\ Payload # Nil
      /\ pc \in Post )
    => /\ pc = "returned"
       /\ ret = err
       /\ err # Nil
       /\ IsError(err)
       /\ CASE Payload.type = "*recoveredError" ->
                  Error(err) = Error(Payload.err)
            [] Payload.type = "error" -> err = Payload
            [] Payload.type = "string" -> Error(err) = Payload.str
            [] OTHER -> HasPrefix(Error(err), "recovered-panic: ")

-----------------------------------------------------------------------------
\* C5: with no panic in flight the deferred Recover(&err), of the package
\* or of the wrapper, returns nil and leaves err as the body left it.
C5RecoverNoPanicIsNoOp ==
    ( /\ Called
      /\ fn.recoverer \in {"Recover", "fnpanics.Recover"}
      /\ Payload = Nil
      /\ pc \in Post )
    => /\ pc = "returned"
       /\ ret = Nil
       /\ err = fn.pre

C5Witness ==
    /\ Called
    /\ fn.recoverer = "Recover"
    /\ Payload = Nil
    /\ pc = "returned"
    /\ fn.pre # Nil
    /\ err = fn.pre
    /\ ret = Nil

-----------------------------------------------------------------------------
\* C6: with DEBUG true and the body panicking, Recover returns nil and
\* leaves err alone, ExitHandler neither exits nor logs, AsyncRecover sends
\* nothing, and the panic goes on out of the function or the worker.
C6DebugDisablesInterception ==
    /\ (Called /\ DEBUG /\ Payload # Nil /\ pc \in Post) =>
          /\ pc = "escaped"
          /\ panicking = Payload
          /\ exit = NoExit
          /\ err = fn.pre
          /\ fn.recoverer # "ExitHandler" => ret = Nil
    /\ (Working /\ DEBUG /\ WorkerPayload # Nil
            /\ wpc \notin {"body", "deferred"}) =>
          /\ wpc = "crashed"
          /\ wpanic = WorkerPayload
          /\ deposited = <<>>
          /\ sendq = <<>>

C6Witness ==
    /\ Called
    /\ DEBUG
    /\ fn.recoverer = "ExitHandler"
    /\ fn.body.prim \in Primitives
    /\ Fails(fn.body)
    /\ pc = "escaped"
    /\ exit = NoExit

-----------------------------------------------------------------------------
\* C7: after a function that defers Recover(&err) has called
\* OnError(e, fragments...) with e non-nil and has returned the recovered
\* error, Cause of that error is e itself.
C7CauseRoundTrip ==
    ( /\ Called
      /\ fn.recoverer = "Recover"
      /\ fn.via = "panics"
      /\ fn.body.prim = "OnError"
      /\ fn.body.arg # Nil
      /\ cause # NoRet )
    => cause = fn.body.arg

C7Witness ==
    /\ Called
    /\ fn.recoverer = "Recover"
    /\ fn.via = "panics"
    /\ fn.body.prim = "OnError"
    /\ fn.body.arg = ClientError(1, "x")
    /\ fn.body.info # <<>>
    /\ cause = fn.body.arg
    /\ err # fn.body.arg
    /\ Error(err) # Error(fn.body.arg)

-----------------------------------------------------------------------------
\* the error the function returned came out of a failed assertion
FromAssertionLayer == fn.body.prim \in Primitives /\ Fails(fn.body)

\* C8: Cause of an error the assertion layer did not produce (nil, an
\* error the body assigned, an error recovered from a panic of another
\* origin) is that error itself.
C8CauseIdentity ==
    (Called /\ cause # NoRet /\ ~FromAssertionLayer) => cause = err

C8Witness ==
    /\ Called
    /\ fn.body.prim = "panic"
    /\ fn.body.arg = ClientError(1, "x")
    /\ cause # NoRet
    /\ err = fn.body.arg
    /\ cause = err

-----------------------------------------------------------------------------
\* the fields of the record that are mandatory and whose value is the
\* default
Violators ==
    {i \in 1..Len(options) :
        /\ options[i].required
        /\ Equal(cells[options[i].value], options[i].defval)}

First(S) == CHOOSE i \in S : \A j \in S : i <= j

\* C9: UsageVerify returns the requirement violation of the first field, in
\* declaration order, that is mandatory and not provided, and no error if
\* there is none; fields that are not mandatory and fields after that first
\* one have no part in the result.
C9UsageVerifyFirstViolation ==
    verify # NoResult =>
        IF Violators = {} THEN verify = Returned(Nil)
        ELSE /\ ~verify.panic
             /\ verify.value.type = "error"
             /\ verify.value.code = "RequiredFlag"
             /\ verify = verifyRequiredOption(options[First(Violators)], cells)
             /\ \A i \in 1..Len(options) :
                   i # First(Violators) =>
                      verify # verifyRequiredOption(
                                  [options[i] EXCEPT !.required = TRUE],
                                  [cells EXCEPT ![options[i].value] =
                                      options[i].defval])

C9Witness ==
    /\ verify # NoResult
    /\ Len(options) = 2
    /\ Violators = {1, 2}
    /\ verify.value # Nil

-----------------------------------------------------------------------------
\* every mandatory field was assigned through one of its names
AllMandatoryAssigned ==
    \A i \in 1..Len(options) :
        options[i].required => options[i].value \in assigned

-----------------------------------------------------------------------------
\* strings.Contains(s, substr)
Contains(s, substr) ==
    \E i \in 1..(Len(s) - Len(substr) + 1) :
        SubSeq(s, i, i + Len(substr) - 1) = substr

\* the names of an option as a requirement violation shows them
Shown(o) ==
    CASE o.long = "" -> "{ -" \o o.short \o " }"
      [] o.short = "" -> "{ -" \o o.long \o " }"
      [] OTHER -> "{ -" \o o.short \o " | -" \o o.long \o " }"

-----------------------------------------------------------------------------
\* the names the flag set holds
Defined == {f.name : f \in fs}

\* the step is a call of the constructor: it made a cell, or it halted on
\* its arguments
Constructing ==
    /\ client = "flags"
    /\ \/ Len(cells') = Len(cells) + 1
       \/ ctor' = "IllegalArgument" /\ ctor # "IllegalArgument"

\* the step is a call of the constructor with these names (the default
\* is in the cell it made; the option it returned, if any, tells the rest)
Constructs(short, long) ==
    \/ NewIntOptionPanics(short, long)
    \/ /\ Len(cells') = Len(cells) + 1
       /\ Len(options') > Len(options) =>
             /\ options'[Len(options')].short = short
             /\ options'[Len(options')].long = long
       /\ \E defval \in Defaults \cap {cells'[Len(cells')]},
             required \in IF Len(options') > Len(options)
                          THEN {options'[Len(options')].required}
                          ELSE {FALSE} :
                NewIntOption(short, long, defval, required)

\* the step leaves the flag set and the caller's record as they were, the
\* constructor having halted with IllegalArgument
Halts == ctor' = "IllegalArgument" /\ fs' = fs /\ options' = options

\* the step returns an option of these names and registers its cell under
\* each non-empty one of them, and under no other name
Registers(short, long) ==
    /\ ctor' = "ok"
    /\ Len(options') = Len(options) + 1
    /\ LET o == options'[Len(options')]
       IN  /\ o.short = short
           /\ o.long = long
           /\ fs \subseteq fs'
           /\ fs' \ fs = {[name |-> n, cell |-> o.value] :
                             n \in {short, long} \ {""}}
           /\ Cardinality(fs' \ fs) = Cardinality({short, long} \ {""})

\* C12 as stated: a constructor called with both names empty or with equal
\* names halts with IllegalArgument and registers nothing; called with any
\* other names it returns an option and registers a flag under exactly each
\* non-empty name.
C12AsStated ==
    [][Constructing =>
       \A short \in ShortNames, long \in LongNames :
          Constructs(short, long) =>
              IF (short = "" /\ long = "") \/ short = long
              THEN Halts
              ELSE Registers(short, long)]_vars

\* C12, amended: a constructor called with both names empty or with equal
\* names halts with IllegalArgument and registers nothing; called with any
\* other names, none of which the flag set already holds, it returns an
\* option and registers a flag under exactly each non-empty name.
C12ConstructorRegisters ==
    [][Constructing =>
       \A short \in ShortNames, long \in LongNames :
          Constructs(short, long) =>
              IF (short = "" /\ long = "") \/ short = long
              THEN Halts
              ELSE ({short, long} \cap Defined = {}) =>
                       Registers(short, long)]_vars

C12Witness ==
    /\ ctor = "ok"
    /\ Len(options) = 2
    /\ options[1].short = "a" /\ options[1].long = "aa"
    /\ options[2].short = "b" /\ options[2].long = ""
    /\ fs = {[name |-> "a", cell |-> 1], [name |-> "aa", cell |-> 1],
             [name |-> "b", cell |-> 2]}

-----------------------------------------------------------------------------
\* the generator has been called; the message of the error it returned
Generated == generated # NoRet
Message == Error(generated)

-----------------------------------------------------------------------------
-----------------------------------------------------------------------------
\* the arguments, each in its default format, joined by single spaces
RECURSIVE JoinArgs(_)
JoinArgs(a) ==
    IF a = <<>> THEN ""
    ELSE IF Len(a) = 1 THEN FormatV(Head(a))
    ELSE FormatV(Head(a)) \o " " \o JoinArgs(Tail(a))

\* C15: called with no argument a generator returns the message "ERR - "
\* followed by the code and nothing else; called with arguments it returns
\* "ERR - ", the code, ":" and the arguments joined by single spaces.
C15ExactMessage ==
    Generated =>
        Message = IF teargs = <<>>
                  THEN "ERR - " \o te.str
                  ELSE "ERR - " \o te.str \o ": " \o JoinArgs(teargs)

-----------------------------------------------------------------------------
\* the body has run, and it called a primitive on the wrapper of ForFunc
WrapperCalled ==
    pc = "deferred" /\ fn.via = "ForFunc" /\ fn.body.prim \in Primitives

\* what the primitive of the package raises on the condition of the body,
\* called with this first fragment before the fragments of the body
TopLevel(first) ==
    Raise("panics", fn.fname,
          [fn.body EXCEPT !.info = <<StringValue(first)>> \o fn.body.info])

-----------------------------------------------------------------------------
\* the body has run, and it called panics.OnError on an error
OnErrorCalled ==
    /\ pc = "deferred"
    /\ fn.via = "panics"
    /\ fn.body.prim = "OnError"
    /\ fn.body.arg # Nil

\* the fragments, each as fmtInfo writes it, joined by single spaces
RECURSIVE SpaceJoined(_)
SpaceJoined(info) ==
    IF info = <<>> THEN ""
    ELSE IF Len(info) = 1 THEN FragmentString(Head(info))
    ELSE FragmentString(Head(info)) \o " " \o SpaceJoined(Tail(info))

\* the message C17 gives the carrier, the fragments being written as joined
OnErrorMessage(e, info, joined) ==
    IF info # <<>>
    THEN "error: " \o joined \o " (cause: " \o Error(e) \o ")"
    ELSE IF ~HasPrefix(Error(e), "error:") THEN "error: " \o Error(e)
    ELSE Error(e)

\* C17 as stated: the carrier OnError raises for a non-nil error e has the
\* message "error: " + the space-joined fragments + " (cause: " + e's
\* message + ")" when there are fragments, "error: " + e's message when
\* there are none and e's message does not start with "error:", and e's
\* message when there are none and it does; raising the carrier again
\* through OnError without fragments leaves the message as it is.
C17AsStated ==
    OnErrorCalled =>
        /\ Error(panicking) =
              OnErrorMessage(fn.body.arg, fn.body.info,
                             SpaceJoined(fn.body.info))
        /\ Error(OnError(panicking, <<>>)) = Error(panicking)

\* C17, amended: as above, the space-joined fragments being stripped of
\* the spaces at their two ends.
C17OnErrorMessage ==
    OnErrorCalled =>
        /\ Error(panicking) =
              OnErrorMessage(fn.body.arg, fn.body.info,
                             Trim(SpaceJoined(fn.body.info), " "))
        /\ Error(OnError(panicking, <<>>)) = Error(panicking)

C17Witness ==
    /\ OnErrorCalled
    /\ fn.body.arg = ClientError(1, "x")
    /\ fn.body.info = <<StringValue(" b"), IntValue(7)>>
    /\ Error(panicking) = "error: b 7 (cause: x)"
    /\ Error(OnError(panicking, <<>>)) = "error: b 7 (cause: x)"

-----------------------------------------------------------------------------
\* the options of the record declared with a short and a long name
Both == {i \in 1..Len(options) : options[i].short # "" /\ options[i].long # ""}

\* the step is an assignment of v through one of the names of option i
Assigns(i, v) ==
    /\ cells'[options[i].value] = v
    /\ \E name \in {options[i].short, options[i].long} : Set(name, v)

\* the step is a construction that returned an option of this default
Returns(defval) ==
    /\ ctor' = "ok"
    /\ Len(options') = Len(options) + 1
    /\ \E short \in ShortNames, long \in LongNames, required \in BOOLEAN :
          NewIntOption(short, long, defval, required)

\* every step keeps the options of the record and their defaults; an
\* option is returned with the default it was given as its value; an
\* assignment through either name of an option is what Get returns next
OptionSteps ==
    /\ \A i \in 1..Len(options) :
          /\ i <= Len(options')
          /\ options'[i] = options[i]
          /\ Default(options'[i]) = Default(options[i])
    /\ \A defval \in Defaults :
          Returns(defval) =>
              LET o == options'[Len(options')]
              IN  Default(o) = defval /\ Get(o, cells') = defval
    /\ \A i \in Both, v \in Values :
          Assigns(i, v) => Get(options'[i], cells') = v

====
